---- MODULE Spec2Model ----
(***************************************************************************)
(* Model of DuplicateImages (src/duplicate.py): the pairwise search engine *)
(* (similar_images, pool_filter), the exact comparator with its lru_cache  *)
(* memoisation (get_size, get_hash, compare_exactly), the action           *)
(* dispatcher of the main program, the file enumerator (files_in_dir) and  *)
(* the histogram comparator (compare_histograms).                          *)
(***************************************************************************)
EXTENDS Integers, Sequences, FiniteSets, TLC

VARIABLES
    files,        \* the list handed to similar_images
    fs,           \* the file system: readable path -> content (a byte sequence)
    parallel,     \* args.parallel
    chunk_size,   \* chunk size handed to pool.starmap
    size_cache,   \* lru_cache of get_size: path -> size
    hash_cache,   \* lru_cache of get_hash: path -> digest
    candidates,   \* the materialised candidate list of parallel mode
    next_chunk,   \* index of the next chunk a pool worker will take
    active,       \* chunks being evaluated by pool workers
    results,      \* starmap's result list, by candidate position
    failed,       \* a chunk raised
    evaluated,    \* how often compare_images was called on each pair
    reads,        \* the values get_size/get_hash handed back: <<kind, path, value>>
    matches,      \* similar_images' return value
    status,       \* position of the main program
    action_equal, \* args.action_equal
    todo,         \* sorted(matches) still to be dispatched
    applied,      \* pairs the action was invoked on, in order
    tree,         \* files_in_dir: the directory tree under the root
    scanned,      \* files_in_dir: which call was made
    listing,      \* files_in_dir: its outcome
    images,       \* compare_histograms: what ImageWrapper.create yields for the two files
    aspect_fuzziness, \* compare_histograms: the aspect tolerance, a fraction
    rms_error,    \* compare_histograms: the RMS threshold, a fraction
    verdict       \* compare_histograms: its outcome

searchVars == <<files, fs, parallel, chunk_size, size_cache, hash_cache, candidates,
                next_chunk, active, results, failed, evaluated, reads, matches, status,
                action_equal, todo, applied>>

enumVars == <<tree, scanned, listing>>

histVars == <<images, aspect_fuzziness, rms_error, verdict>>

vars == <<searchVars, enumVars, histVars>>

\* ---------------------------------------------------------------- bounds

MaxFiles == 3
NumWorkers == 2
MaxChunk == 2
CHUNK_SIZE == 25

Paths == 1..MaxFiles

\* File contents: byte sequences. Two of them have the same length, two the
\* same digest.
Contents == {<<0>>, <<1>>, <<0, 1>>}

RECURSIVE SumBytes(_)
SumBytes(bytes) == IF bytes = <<>> THEN 0 ELSE Head(bytes) + SumBytes(Tail(bytes))

\* hashlib.md5(...).hexdigest(): a deterministic digest of the bytes, of fixed
\* width, so distinct contents may collide.
md5(bytes) == SumBytes(bytes) % 2

\* ------------------------------------------------------- attribute cache

EmptyCache == [p \in {} |-> 0]

\* A store that clobbers the other entries.
CachePutClobber(cache, key, value) == [k \in DOMAIN cache \cup {key} |-> value]

CachePut(cache, key, value) ==
    [k \in DOMAIN cache \cup {key} |-> IF k = key THEN value ELSE cache[k]]

\* The wrapped functions: os.path.getsize and md5 of the file's bytes. Both
\* raise OSError on a path that cannot be stat-ed or opened.
Computable(file, disk) == file \in DOMAIN disk
ComputeSize(file, disk) == Len(disk[file])
ComputeHash(file, disk) == md5(disk[file])

\* ------------------------------------------------------- compare_exactly
\* One evaluation of compare_exactly(file, other_file) is a context that
\* walks through the four memoised calls in Python's evaluation order:
\*   1 get_size(other_file)  2 get_size(file)  3 get_hash(file)  4 get_hash(other_file)
\* Each call is a cache lookup and, on a miss, the computation followed by
\* the store into the cache.

NewCompare(file, other_file) ==
    [file |-> file, other |-> other_file, call |-> 1, sub |-> "lookup",
     tmp |-> 0, left |-> 0, out |-> "run"]

CallKey(ctx) == IF ctx.call \in {1, 4} THEN ctx.other ELSE ctx.file
CallKind(ctx) == IF ctx.call <= 2 THEN "size" ELSE "hash"

\* A comparison that trusts the digests alone.
AfterCallHashOnly(ctx, value) ==
    CASE ctx.call = 1 -> [ctx EXCEPT !.call = 2, !.sub = "lookup", !.left = value]
      [] ctx.call = 2 -> [ctx EXCEPT !.call = 3, !.sub = "lookup"]
      [] ctx.call = 3 -> [ctx EXCEPT !.call = 4, !.sub = "lookup", !.left = value]
      [] OTHER        -> [ctx EXCEPT !.out = IF ctx.left = value THEN "true" ELSE "false"]

\* The call of ctx.call has returned value: continue compare_exactly.
AfterCall(ctx, value) ==
    CASE ctx.call = 1 -> [ctx EXCEPT !.call = 2, !.sub = "lookup", !.left = value]
      [] ctx.call = 2 -> IF ctx.left = value
                         THEN [ctx EXCEPT !.call = 3, !.sub = "lookup"]
                         ELSE [ctx EXCEPT !.out = "false"]
      [] ctx.call = 3 -> [ctx EXCEPT !.call = 4, !.sub = "lookup", !.left = value]
      [] OTHER        -> [ctx EXCEPT !.out = IF ctx.left = value THEN "true" ELSE "false"]

\* One step of the lru_cache wrapper around get_size / get_hash. The pool of
\* multiprocessing.dummy is a pool of threads, so the caches are shared; the
\* wrapper's dictionary lookup and its store are each atomic, the call of
\* the wrapped function between them is not, and a failed call stores nothing.
CacheStep(ctx, cache, disk) ==
    LET key == CallKey(ctx)
        compute == IF CallKind(ctx) = "size" THEN ComputeSize(key, disk)
                   ELSE ComputeHash(key, disk)
    IN IF ctx.sub = "lookup"
       THEN IF key \in DOMAIN cache
            THEN [ctx |-> AfterCall(ctx, cache[key]), cache |-> cache,
                  read |-> {<<CallKind(ctx), key, cache[key]>>}]
            ELSE IF Computable(key, disk)
                 THEN [ctx |-> [ctx EXCEPT !.sub = "store", !.tmp = compute],
                       cache |-> cache, read |-> {}]
                 ELSE [ctx |-> [ctx EXCEPT !.out = "raise"], cache |-> cache, read |-> {}]
       ELSE [ctx |-> AfterCall(ctx, ctx.tmp), cache |-> CachePut(cache, key, ctx.tmp),
             read |-> {<<CallKind(ctx), key, ctx.tmp>>}]

\* One step of compare_exactly on the two caches.
CompareStep(ctx, sc, hc, disk) ==
    IF CallKind(ctx) = "size"
    THEN LET r == CacheStep(ctx, sc, disk)
         IN [ctx |-> r.ctx, sc |-> r.cache, hc |-> hc, read |-> r.read]
    ELSE LET r == CacheStep(ctx, hc, disk)
         IN [ctx |-> r.ctx, sc |-> sc, hc |-> r.cache, read |-> r.read]

\* compare_exactly run to completion by one thread.
RECURSIVE RunCompare(_, _, _, _, _)
RunCompare(ctx, sc, hc, rd, disk) ==
    IF ctx.out # "run" THEN [out |-> ctx.out, sc |-> sc, hc |-> hc, reads |-> rd]
    ELSE LET r == CompareStep(ctx, sc, hc, disk)
         IN RunCompare(r.ctx, r.sc, r.hc, rd \cup r.read, disk)

compare_exactly(file, other_file, sc, hc, disk) ==
    RunCompare(NewCompare(file, other_file), sc, hc, {}, disk)

\* ------------------------------------------------------- similar_images

\* list.index: the first position holding file.
RECURSIVE index(_, _)
index(fl, file) == IF Head(fl) = file THEN 1 ELSE 1 + index(Tail(fl), file)

\* A slice that starts at the file itself.
OthersFrom(fl, file) == SubSeq(fl, index(fl, file), Len(fl))

\* files[files.index(file) + 1:] (Python's 0-based slice start index+1 is
\* the 1-based position index+1).
OthersAfter(fl, file) == SubSeq(fl, index(fl, file) + 1, Len(fl))

PairsOf(file, others) == [k \in 1..Len(others) |-> <<file, others[k]>>]

\* [(file, other_file) for file in files for other_file in files[index+1:]]
RECURSIVE CandidatesFrom(_, _)
CandidatesFrom(fl, k) ==
    IF k > Len(fl) THEN <<>>
    ELSE PairsOf(fl[k], OthersAfter(fl, fl[k])) \o CandidatesFrom(fl, k + 1)

Candidates(fl) == CandidatesFrom(fl, 1)

NoneEvaluated == [pr \in Paths \X Paths |-> 0]

Count(ev, pr) == [ev EXCEPT ![pr] = @ + 1]

\* The sequential branch: the comprehension evaluates compare_images inline,
\* pair after pair, and an exception leaves the comprehension at once.
RECURSIVE SequentialFilter(_, _, _, _)
SequentialFilter(cands, k, acc, disk) ==
    IF k > Len(cands) THEN [acc EXCEPT !.raised = FALSE]
    ELSE LET r == compare_exactly(cands[k][1], cands[k][2], acc.sc, acc.hc, disk)
             nxt == [acc EXCEPT !.sc = r.sc, !.hc = r.hc,
                                !.reads = @ \cup r.reads,
                                !.evaluated = Count(@, cands[k])]
         IN CASE r.out = "raise" -> [nxt EXCEPT !.raised = TRUE]
              [] r.out = "true"  ->
                   SequentialFilter(cands, k + 1,
                                    [nxt EXCEPT !.matches = Append(@, cands[k])], disk)
              [] OTHER -> SequentialFilter(cands, k + 1, nxt, disk)

FreshRun(sc, hc) ==
    [matches |-> <<>>, sc |-> sc, hc |-> hc, reads |-> {},
     evaluated |-> NoneEvaluated, raised |-> FALSE]

similar_images_sequential(fl, sc, hc, disk) ==
    SequentialFilter(Candidates(fl), 1, FreshRun(sc, hc), disk)

\* ---------------------------------------------------------- pool_filter

\* Pool._get_tasks: the candidate list cut into chunks of chunk_size.
NumChunks(n, cs) == (n + cs - 1) \div cs
ChunkStart(c, cs) == (c - 1) * cs + 1
ChunkEnd(c, cs, n) == IF c * cs < n THEN c * cs ELSE n

\* A filter that lost its condition.
ZipKeepAll(cands, res) == SubSeq(cands, 1, IF Len(res) < Len(cands) THEN Len(res) ELSE Len(cands))

\* [c for c, keep in zip(candidates, results) if keep]
RECURSIVE ZipFilter(_, _)
ZipFilter(cands, res) ==
    IF cands = <<>> \/ res = <<>> THEN <<>>
    ELSE (IF Head(res) = "true" THEN <<Head(cands)>> ELSE <<>>)
         \o ZipFilter(Tail(cands), Tail(res))

\* ------------------------------------------------------ action dispatch

Actions == {"delete_first", "delete_second", "view", "none"}

PairLess(a, b) == a[1] < b[1] \/ (a[1] = b[1] /\ a[2] < b[2])

RECURSIVE Insert(_, _)
Insert(pr, sorted) ==
    IF sorted = <<>> THEN <<pr>>
    ELSE IF PairLess(pr, Head(sorted)) THEN <<pr>> \o sorted
    ELSE <<Head(sorted)>> \o Insert(pr, Tail(sorted))

\* sorted(matches): tuples compare lexicographically.
RECURSIVE sorted(_)
sorted(sq) == IF sq = <<>> THEN <<>> ELSE Insert(Head(sq), sorted(Tail(sq)))

\* The file an action removes, 0 when it removes none.
Removes(act, pr) ==
    CASE act = "delete_first"  -> pr[1]
      [] act = "delete_second" -> pr[2]
      [] OTHER -> 0

RemoveFile(disk, file) == [p \in DOMAIN disk \ {file} |-> disk[p]]

\* ------------------------------------------------------------ the program

\* Lists of pairwise-distinct paths.
FileLists ==
    {fl \in UNION {[1..n -> Paths] : n \in 0..MaxFiles} :
        \A i, j \in DOMAIN fl : i # j => fl[i] # fl[j]}

\* sorted(files_in_dir(...)): the list the main program passes.
SortedLists == {[i \in 1..n |-> i] : n \in 0..MaxFiles}

Elems(sq) == {sq[i] : i \in DOMAIN sq}

\* Every file of the list readable.
FullDisks(fl) == [Elems(fl) -> Contents]

\* Some files of the list gone or unreadable since they were enumerated.
Disks(fl) == UNION {[D -> Contents] : D \in SUBSET Elems(fl)}

ChunkSizes == (1..MaxChunk) \cup {CHUNK_SIZE}

SearchStart ==
    /\ parallel = FALSE
    /\ chunk_size = CHUNK_SIZE
    /\ size_cache = EmptyCache
    /\ hash_cache = EmptyCache
    /\ candidates = <<>>
    /\ next_chunk = 1
    /\ active = {}
    /\ results = <<>>
    /\ failed = FALSE
    /\ evaluated = NoneEvaluated
    /\ reads = {}
    /\ matches = <<>>
    /\ status = "start"
    /\ action_equal = "none"
    /\ todo = <<>>
    /\ applied = <<>>

NoSearch ==
    /\ files = <<>>
    /\ fs = EmptyCache
    /\ SearchStart

NoEnum ==
    /\ tree = <<>>
    /\ scanned = "no"
    /\ listing = <<>>

NoHist ==
    /\ images = <<>>
    /\ aspect_fuzziness = <<0, 1>>
    /\ rms_error = <<0, 1>>
    /\ verdict = "none"

\* The main program after enumeration: a sorted list, any of its files
\* possibly gone by the time it is compared.
Init ==
    /\ files \in SortedLists
    /\ fs \in Disks(files)
    /\ SearchStart
    /\ NoEnum
    /\ NoHist

dispatchVars == <<action_equal, todo, applied>>
poolVars == <<candidates, next_chunk, active, results, failed>>

\* similar_images(..., parallel=False)
SimilarSequential ==
    /\ status = "start"
    /\ LET r == similar_images_sequential(files, size_cache, hash_cache, fs)
       IN /\ size_cache' = r.sc
          /\ hash_cache' = r.hc
          /\ evaluated' = r.evaluated
          /\ reads' = r.reads
          /\ matches' = r.matches
          /\ status' = IF r.raised THEN "raised" ELSE "returned"
    /\ parallel' = FALSE
    /\ UNCHANGED <<files, fs, chunk_size, poolVars, dispatchVars, enumVars, histVars>>

\* similar_images(..., parallel=True): materialise the candidates and hand
\* them to pool.starmap.
SimilarParallel(cs) ==
    /\ status = "start"
    /\ parallel' = TRUE
    /\ chunk_size' = cs
    /\ candidates' = Candidates(files)
    /\ results' = [k \in 1..Len(Candidates(files)) |-> "none"]
    /\ next_chunk' = 1
    /\ status' = "pool"
    /\ UNCHANGED <<files, fs, size_cache, hash_cache, active, failed, evaluated,
                   reads, matches, dispatchVars, enumVars, histVars>>

\* A free worker takes the next chunk and calls compare_images on its first pair.
TakeChunk ==
    /\ status = "pool"
    /\ next_chunk <= NumChunks(Len(candidates), chunk_size)
    /\ Cardinality(active) < NumWorkers
    /\ LET pos == ChunkStart(next_chunk, chunk_size)
       IN /\ active' = active \cup
                 {[chunk |-> next_chunk, pos |-> pos,
                   ctx |-> NewCompare(candidates[pos][1], candidates[pos][2])]}
          /\ evaluated' = Count(evaluated, candidates[pos])
    /\ next_chunk' = next_chunk + 1
    /\ UNCHANGED <<files, fs, parallel, chunk_size, size_cache, hash_cache, candidates,
                   results, failed, reads, matches, status, dispatchVars, enumVars, histVars>>

\* A worker takes one step of compare_exactly on its current pair.
WorkerStep(w) ==
    /\ status = "pool"
    /\ w \in active
    /\ LET r == CompareStep(w.ctx, size_cache, hash_cache, fs)
           last == ChunkEnd(w.chunk, chunk_size, Len(candidates))
       IN /\ size_cache' = r.sc
          /\ hash_cache' = r.hc
          /\ reads' = reads \cup r.read
          /\ CASE r.ctx.out = "run" ->
                    /\ active' = (active \ {w}) \cup {[w EXCEPT !.ctx = r.ctx]}
                    /\ UNCHANGED <<results, failed, evaluated>>
               [] r.ctx.out = "raise" ->
                    /\ active' = active \ {w}
                    /\ failed' = TRUE
                    /\ UNCHANGED <<results, evaluated>>
               [] OTHER ->
                    /\ results' = [results EXCEPT ![w.pos] = r.ctx.out]
                    /\ UNCHANGED failed
                    /\ IF w.pos < last
                       THEN /\ active' = (active \ {w}) \cup
                                 {[w EXCEPT !.pos = w.pos + 1,
                                            !.ctx = NewCompare(candidates[w.pos + 1][1],
                                                               candidates[w.pos + 1][2])]}
                            /\ evaluated' = Count(evaluated, candidates[w.pos + 1])
                       ELSE /\ active' = active \ {w}
                            /\ UNCHANGED evaluated
    /\ UNCHANGED <<files, fs, parallel, chunk_size, candidates, next_chunk, matches,
                   status, dispatchVars, enumVars, histVars>>

\* starmap hands back the results once every chunk is done, or re-raises the
\* exception of a chunk that failed; pool_filter zips and filters.
PoolFilterReturn ==
    /\ status = "pool"
    /\ next_chunk > NumChunks(Len(candidates), chunk_size)
    /\ active = {}
    /\ IF failed
       THEN /\ status' = "raised"
            /\ UNCHANGED matches
       ELSE /\ status' = "returned"
            /\ matches' = ZipFilter(candidates, results)
    /\ UNCHANGED <<files, fs, parallel, chunk_size, size_cache, hash_cache, poolVars,
                   evaluated, reads, dispatchVars, enumVars, histVars>>

\* for pair in sorted(matches): the loop is entered with the configured action.
StartDispatch(act) ==
    /\ status = "returned"
    /\ action_equal' = act
    /\ todo' = sorted(matches)
    /\ status' = "dispatch"
    /\ UNCHANGED <<files, fs, parallel, chunk_size, size_cache, hash_cache, poolVars,
                   evaluated, reads, matches, applied, enumVars, histVars>>

\* action_equal(pair): os.remove raises FileNotFoundError on a path that is gone.
Dispatch ==
    /\ status = "dispatch"
    /\ todo # <<>>
    /\ LET pr == Head(todo)
           victim == Removes(action_equal, pr)
       IN /\ applied' = Append(applied, pr)
          /\ IF victim = 0
             THEN /\ todo' = Tail(todo)
                  /\ UNCHANGED <<fs, status>>
             ELSE IF victim \in DOMAIN fs
                  THEN /\ fs' = RemoveFile(fs, victim)
                       /\ todo' = Tail(todo)
                       /\ UNCHANGED status
                  ELSE /\ status' = "crashed"
                       /\ UNCHANGED <<fs, todo>>
    /\ UNCHANGED <<files, parallel, chunk_size, size_cache, hash_cache, poolVars,
                   evaluated, reads, matches, action_equal, enumVars, histVars>>

\* The loop ends and the program exits normally.
Finish ==
    /\ status = "dispatch"
    /\ todo = <<>>
    /\ status' = "done"
    /\ UNCHANGED <<files, fs, parallel, chunk_size, size_cache, hash_cache, poolVars,
                   evaluated, reads, matches, dispatchVars, enumVars, histVars>>

Next ==
    \/ SimilarSequential
    \/ \E cs \in ChunkSizes : SimilarParallel(cs)
    \/ TakeChunk
    \/ \E w \in active : WorkerStep(w)
    \/ PoolFilterReturn
    \/ \E act \in Actions : StartDispatch(act)
    \/ Dispatch
    \/ Finish

Spec == Init /\ [][Next]_vars

\* A fixed disk for arbitrary lists: files of equal size, two digests.
ParityDisk(fl) == [p \in Elems(fl) |-> <<p % 2>>]

\* similar_images called on any list of pairwise-distinct paths.
InitLists ==
    /\ files \in FileLists
    /\ fs = ParityDisk(files)
    /\ SearchStart
    /\ NoEnum
    /\ NoHist

SpecLists == InitLists /\ [][Next]_vars

\* ---------------------------------------------------------- files_in_dir

MaxNodes == 3

\* What a path listed under the root is at the moment files_in_dir examines
\* it, and whether the caller's predicate accepts it:
\*   dir    a directory that can be listed
\*   locked a directory whose listing fails (no permission, or removed after
\*          os.path.isdir answered)
\*   gone   removed since its parent was listed: no predicate accepts it
\*   file   a regular file
\*   other  neither a directory nor a regular file
NodeKinds ==
    {[kind |-> k, accepts |-> FALSE] : k \in {"dir", "locked", "gone"}} \cup
    {[kind |-> k, accepts |-> a] : k \in {"file", "other"}, a \in BOOLEAN}

\* Path 0 is the root; every other path lies in a directory listed before it.
ParentMaps(n) == {f \in [1..n -> 0..(n - 1)] : \A p \in 1..n : f[p] < p}

Trees(n) == [parent : ParentMaps(n), node : [1..n -> NodeKinds]]

WellFormed(t) ==
    \A p \in DOMAIN t.parent : t.parent[p] = 0 \/ t.node[t.parent[p]].kind = "dir"

isdir(t, path) == t.node[path].kind \in {"dir", "locked"}
isfile(t, path) == t.node[path].kind = "file"

\* os.listdir: the entries of a directory (in ascending order here).
RECURSIVE Entries(_, _, _)
Entries(t, dir, from) ==
    IF from > Len(t.parent) THEN <<>>
    ELSE (IF t.parent[from] = dir THEN <<from>> ELSE <<>>) \o Entries(t, dir, from + 1)

Listable(t, dir) == dir = 0 \/ t.node[dir].kind = "dir"

\* The predicate of one call: the caller's, or the default os.path.isfile.
is_file(t, pred, path) == IF pred = "given" THEN t.node[path].accepts ELSE isfile(t, path)

Raised == [raised |-> TRUE, paths |-> <<>>]
Listed(paths) == [raised |-> FALSE, paths |-> paths]

RECURSIVE files_in_dir(_, _, _)
RECURSIVE convoluted_files_in_dir(_, _, _)

\* The recursive call passes no predicate: below the root the default applies.
files_in_path(t, pred, path) ==
    IF isdir(t, path) THEN files_in_dir(t, path, "default")
    ELSE IF is_file(t, pred, path) THEN Listed(<<path>>)
    ELSE Listed(<<>>)

\* sum([files_in_path(join(dir_name, path)) for path in os.listdir(dir_name)], [])
convoluted_files_in_dir(t, pred, entries) ==
    IF entries = <<>> THEN Listed(<<>>)
    ELSE LET first == files_in_path(t, pred, Head(entries))
             rest == convoluted_files_in_dir(t, pred, Tail(entries))
         IN IF first.raised \/ rest.raised THEN Raised
            ELSE Listed(first.paths \o rest.paths)

files_in_dir(t, dir_name, pred) ==
    IF ~Listable(t, dir_name) THEN Raised
    ELSE convoluted_files_in_dir(t, pred, Entries(t, dir_name, 1))

InitEnum ==
    /\ \E n \in 0..MaxNodes : tree \in {t \in Trees(n) : WellFormed(t)}
    /\ scanned = "no"
    /\ listing = Listed(<<>>)
    /\ NoSearch
    /\ NoHist

\* files_in_dir(root)
ScanDefault ==
    /\ scanned = "no"
    /\ scanned' = "default"
    /\ listing' = files_in_dir(tree, 0, "default")
    /\ UNCHANGED <<tree, searchVars, histVars>>

\* files_in_dir(root, is_file), as the main program calls it
ScanWithPredicate ==
    /\ scanned = "no"
    /\ scanned' = "given"
    /\ listing' = files_in_dir(tree, 0, "given")
    /\ UNCHANGED <<tree, searchVars, histVars>>

NextEnum ==
    \/ ScanDefault
    \/ ScanWithPredicate

SpecEnum == InitEnum /\ [][NextEnum]_vars

\* ---------------------------------------------------- compare_histograms

HistLen == 2
MaxBucket == 1
MaxRms == 2

\* ImageWrapper.create on a file that does not decode: the kind of failure
\* and the exception that reports it.
DecodeFailures ==
    {[failure |-> "io_error", raises |-> "IOError"],
     [failure |-> "unsupported_format", raises |-> "IOError"],
     [failure |-> "corrupt_content", raises |-> "IOError"],
     [failure |-> "corrupt_content", raises |-> "TypeError"]}

Dimensions == {<<1, 1>>, <<2, 1>>}

Histograms == [1..HistLen -> 0..MaxBucket]

NoHistogram == [i \in 1..HistLen |-> 0]

\* ImageWrapper.create: a decoded image (width, height and a histogram of
\* fixed length) or a failure.
Created ==
    {[failure |-> "none", raises |-> "none", width |-> d[1], height |-> d[2],
      histogram |-> h] : d \in Dimensions, h \in Histograms}
    \cup
    {[failure |-> f.failure, raises |-> f.raises, width |-> 0, height |-> 0,
      histogram |-> NoHistogram] : f \in DecodeFailures}

\* Thresholds are fractions <<numerator, denominator>>.
RmsErrors == {<<n, d>> : n \in 0..MaxRms, d \in {1, 2}}
AspectFuzzinesses == {<<1, 20>>, <<1, 1>>}

Abs(x) == IF x < 0 THEN 0 - x ELSE x
Larger(x, y) == IF x < y THEN y ELSE x

\* The aspect ratios width/height differ by at most aspect_fuzziness,
\* relative to the larger of the two.
aspects_roughly_equal(image, other_image, fuzz) ==
    LET a == image.width * other_image.height
        b == other_image.width * image.height
    IN Abs(a - b) * fuzz[2] <= fuzz[1] * Larger(a, b)

\* map(lambda a, b: (a - b) ** 2, hist, other_hist): as long as the shorter.
get_deviations(hist, other_hist) ==
    [i \in 1..(IF Len(hist) < Len(other_hist) THEN Len(hist) ELSE Len(other_hist)) |->
        (hist[i] - other_hist[i]) * (hist[i] - other_hist[i])]

RECURSIVE sum(_)
sum(sq) == IF sq = <<>> THEN 0 ELSE Head(sq) + sum(Tail(sq))

\* A threshold that is itself reached counts as below.
RmsAtMost(total, buckets, err) ==
    err[1] >= 0 /\ total * err[2] * err[2] <= err[1] * err[1] * buckets

\* sqrt(total / buckets) < err, err a fraction: a square root is never
\* negative, and below a positive err exactly when total / buckets < err^2.
RmsBelow(total, buckets, err) ==
    err[1] > 0 /\ total * err[2] * err[2] < err[1] * err[1] * buckets

compare_image_histograms(image, other_image, fuzz, err) ==
    IF ~aspects_roughly_equal(image, other_image, fuzz) THEN FALSE
    ELSE RmsBelow(sum(get_deviations(image.histogram, other_image.histogram)),
                  Len(image.histogram), err)

\* A handler for I/O errors alone.
CaughtIOErrorOnly == {"IOError"}

\* except (IOError, TypeError)
Caught == {"IOError", "TypeError"}

\* The try block: the arguments are created left to right, then compared.
TryCompare(created, other_created, fuzz, err) ==
    IF created.failure # "none" THEN [exc |-> created.raises, value |-> FALSE]
    ELSE IF other_created.failure # "none"
         THEN [exc |-> other_created.raises, value |-> FALSE]
    ELSE [exc |-> "none",
          value |-> compare_image_histograms(created, other_created, fuzz, err)]

compare_histograms(created, other_created, fuzz, err) ==
    LET r == TryCompare(created, other_created, fuzz, err)
    IN IF r.exc = "none" THEN (IF r.value THEN "true" ELSE "false")
       ELSE IF r.exc \in Caught THEN "false"
       ELSE "raise"

InitHist ==
    /\ images \in Created \X Created
    /\ aspect_fuzziness \in AspectFuzzinesses
    /\ rms_error \in RmsErrors
    /\ verdict = "none"
    /\ NoSearch
    /\ NoEnum

\* compare_histograms(file, other_file, aspect_fuzziness, rms_error)
CompareHistograms ==
    /\ verdict = "none"
    /\ verdict' = compare_histograms(images[1], images[2], aspect_fuzziness, rms_error)
    /\ UNCHANGED <<images, aspect_fuzziness, rms_error, searchVars, enumVars>>

NextHist == CompareHistograms

SpecHist == InitHist /\ [][NextHist]_vars

\* ---------------------------------------------------------------- claims

PosIn(fl, file) == CHOOSE i \in DOMAIN fl : fl[i] = file

EvaluatedPairs == {pr \in Paths \X Paths : evaluated[pr] > 0}

\* C1: for a list of N pairwise-distinct paths, in sequential and in parallel
\* mode, no pair is evaluated twice, every evaluated pair is (files[i],
\* files[j]) with i < j (so no file is paired with itself), the materialised
\* candidate list holds N*(N-1)/2 pairs, and when similar_images returns
\* every pair i < j has been evaluated: N*(N-1)/2 pairs in all.
C1_AllPairsOnce ==
    /\ \A pr \in Paths \X Paths : evaluated[pr] <= 1
    /\ \A pr \in EvaluatedPairs :
          /\ pr[1] \in Elems(files) /\ pr[2] \in Elems(files)
          /\ PosIn(files, pr[1]) < PosIn(files, pr[2])
    /\ status = "pool" => 2 * Len(candidates) = Len(files) * (Len(files) - 1)
    /\ status = "returned" =>
          /\ \A i, j \in DOMAIN files : i < j => evaluated[<<files[i], files[j]>>] = 1
          /\ 2 * Cardinality(EvaluatedPairs) = Len(files) * (Len(files) - 1)

C1_Witness ==
    /\ status = "returned"
    /\ parallel
    /\ Len(files) = 3
    /\ files[1] > files[2]
    /\ Cardinality(EvaluatedPairs) = 3

\* C2: on the same list and disk, parallel mode returns the set of matches
\* sequential mode returns, and raises exactly when sequential mode raises,
\* for every chunk size and every interleaving of the workers.
C2_ParallelEqualsSequential ==
    LET seq == similar_images_sequential(files, EmptyCache, EmptyCache, fs)
    IN /\ (parallel /\ status = "returned") =>
             /\ ~seq.raised
             /\ Elems(matches) = Elems(seq.matches)
       /\ (parallel /\ status = "raised") => seq.raised

C2_Witness ==
    /\ parallel
    /\ status = "returned"
    /\ chunk_size = 1
    /\ Len(candidates) = 3
    /\ Len(matches) = 1

SearchPhase == status \in {"start", "pool", "returned", "raised"}

\* C7: compare_exactly on two readable files, whatever the caches hold
\* before and after a search, is
\* true exactly when the sizes and the digests agree, agrees with the call
\* with its arguments swapped, and is true on files of identical content;
\* so the matches returned are exactly the candidate pairs equal in size and
\* digest.
C7_ExactIffSizeAndHash ==
    status \in {"start", "returned", "raised"} =>
       /\ \A a, b \in DOMAIN fs :
             LET r == compare_exactly(a, b, size_cache, hash_cache, fs).out
             IN /\ r \in {"true", "false"}
                /\ (r = "true") <=> (Len(fs[a]) = Len(fs[b]) /\ md5(fs[a]) = md5(fs[b]))
                /\ r = compare_exactly(b, a, size_cache, hash_cache, fs).out
                /\ fs[a] = fs[b] => r = "true"
       /\ status = "returned" =>
             Elems(matches) =
                {<<files[i], files[j]>> : i, j \in DOMAIN files} \cap
                {pr \in Paths \X Paths :
                    /\ PosIn(files, pr[1]) < PosIn(files, pr[2])
                    /\ Len(fs[pr[1]]) = Len(fs[pr[2]])
                    /\ md5(fs[pr[1]]) = md5(fs[pr[2]])}

C7_Witness ==
    /\ status = "returned"
    /\ Len(files) = 3
    /\ DOMAIN fs = Elems(files)
    /\ Len(fs[1]) # Len(fs[2]) /\ md5(fs[1]) = md5(fs[2])
    /\ fs[1] = fs[3]
    /\ matches = <<(<<1, 3>>)>>

\* C9: in parallel mode, with the files unchanged, a cache entry is the
\* size (the digest) of its path and never anything else, whichever workers
\* stored it, and every value get_size or get_hash handed to a worker is
\* that value.
C9_CacheWriteOnce ==
    (parallel /\ SearchPhase) =>
       /\ \A p \in DOMAIN size_cache : p \in DOMAIN fs /\ size_cache[p] = Len(fs[p])
       /\ \A p \in DOMAIN hash_cache : p \in DOMAIN fs /\ hash_cache[p] = md5(fs[p])
       /\ \A r \in reads :
             /\ r[2] \in DOMAIN fs
             /\ r[3] = IF r[1] = "size" THEN Len(fs[r[2]]) ELSE md5(fs[r[2]])

\* C9: an entry, once stored, keeps its value.
C9_EntriesKeepValue ==
    [][/\ \A p \in DOMAIN size_cache :
             p \in DOMAIN size_cache' /\ size_cache'[p] = size_cache[p]
       /\ \A p \in DOMAIN hash_cache :
             p \in DOMAIN hash_cache' /\ hash_cache'[p] = hash_cache[p]]_vars

\* Two workers missed on the same path and both are about to store, while
\* the disk holds files of different size.
C9_Witness ==
    /\ status = "pool"
    /\ \E v, w \in active :
          /\ v # w
          /\ v.ctx.sub = "store" /\ w.ctx.sub = "store"
          /\ CallKind(v.ctx) = CallKind(w.ctx)
          /\ CallKey(v.ctx) = CallKey(w.ctx)
    /\ \E p, q \in DOMAIN fs : Len(fs[p]) # Len(fs[q])
    /\ size_cache # EmptyCache

\* C5: a file that cannot be stat-ed or read does not make similar_images
\* raise: it returns a match list, no pair with that file is a match, and
\* every pair has been evaluated.
C5_FailureContained ==
    /\ status # "raised"
    /\ status = "returned" =>
          /\ \A m \in Elems(matches) : m[1] \in DOMAIN fs /\ m[2] \in DOMAIN fs
          /\ 2 * Cardinality(EvaluatedPairs) = Len(files) * (Len(files) - 1)

\* C4: the action is invoked once per match in sorted order and the run
\* completes: the dispatch loop never dies, and at the end the pairs acted
\* on are sorted(matches).
C4_DispatchCompletes ==
    /\ status # "crashed"
    /\ \A i, j \in DOMAIN applied : i < j => PairLess(applied[i], applied[j])
    /\ status = "done" => applied = sorted(matches)

UnderRoot(t) == DOMAIN t.parent

\* C3: files_in_dir(root, is_file) returns exactly the paths under the root,
\* at any depth, that are no directories and that is_file accepts.
C3_ListsAcceptedFiles ==
    (scanned = "given" /\ ~listing.raised) =>
       Elems(listing.paths) =
          {p \in UnderRoot(tree) : ~isdir(tree, p) /\ tree.node[p].accepts}

\* C8: a path that is gone or cannot be listed when it is examined
\* contributes no file and does not abort the enumeration.
C8_ScanNeverAborts ==
    scanned # "no" =>
       /\ ~listing.raised
       /\ \A p \in Elems(listing.paths) : tree.node[p].kind \notin {"gone", "locked"}

Decoded(pr) == pr[1].failure = "none" /\ pr[2].failure = "none"

RECURSIVE SquaredDifferences(_, _, _)
SquaredDifferences(h, g, buckets) ==
    IF buckets = {} THEN 0
    ELSE LET i == CHOOSE x \in buckets : TRUE
         IN (h[i] - g[i]) * (h[i] - g[i]) + SquaredDifferences(h, g, buckets \ {i})

\* err1 <= err2, for fractions with positive denominators.
FractionLeq(err1, err2) == err1[1] * err2[2] <= err2[1] * err1[2]

====
